---- MODULE Spec2Model ----
(***************************************************************************)
(* Model of pbsea.PandasBasedEnrichmentAnalysis and                        *)
(* EnrichmentAnalysisExperimental (src/pbsea/pbsea.py): the analysis       *)
(* object, its setters, the test engine, the multiple-testing corrections  *)
(* and the significance selectors.                                         *)
(*                                                                         *)
(* Numbers.  The code computes in double precision floats.  The model      *)
(* computes p-values as exact reduced fractions [n |-> .., d |-> ..] with  *)
(* d > 0; not-a-number is the fraction 0/0 and +infinity is 1/0.  Three    *)
(* library functions cannot be evaluated exactly in integers and are       *)
(* modelled by stated approximations: scipy's norm.sf (a monotone step     *)
(* function of the z-score), scipy's binom.sf and math.pow in the Sidak    *)
(* threshold (fixed point, resolution 10^-6).                              *)
(***************************************************************************)
EXTENDS Integers, Sequences, FiniteSets, TLC

VARIABLES
    number_of_analyzed_object_of_interest,  \* self._number_of_analyzed_object_of_interest
    number_of_analyzed_object_of_reference, \* self._number_of_analyzed_object_of_reference
    alpha,                                  \* self._alpha
    normal_approximation_threshold,         \* self._normal_approximation_threshold
    statistic_method,                       \* self._statistic_method
    output_columns,                         \* self._output_columns[4]
    dataframe,                              \* self.dataframe
    returned,                               \* the table the last call returned
    significative_objects,                  \* the method -> keys map of the last call
    error,                                  \* the exception the last call raised
    op,                                     \* the last call made on the object
    reached,                                \* where the last call ended: the step that
                                            \* raised, or "return"
    calls,                                  \* the number of calls made on the object
    suite,                                  \* the class of the object: base, experimental
                                            \* or annotation
    annotation_id_to_labels                 \* self._annotation_id_to_labels

vars == <<number_of_analyzed_object_of_interest, number_of_analyzed_object_of_reference,
          alpha, normal_approximation_threshold, statistic_method, output_columns,
          dataframe, returned, significative_objects, error, op, reached, calls, suite,
          annotation_id_to_labels>>

-----------------------------------------------------------------------------
(* Bounds of the model. *)

MaxReference == 3   \* largest population size and largest count drawn
MaxRows == 2        \* largest count table drawn for the analysis object
MaxRowsCorr == 5    \* largest raw p-value table drawn for the corrections
MaxCalls == 3       \* most calls made on one analysis object after its construction
MaxRowsLong == 8    \* largest raw p-value table drawn over the short grid of p-values
MaxRowsStale == 2   \* largest table drawn with two raw p-value columns
MaxRowsLarge == 12  \* largest raw p-value table drawn for the large-sample SGoF
MaxRowsAnnotation == 3  \* largest raw p-value table drawn with a dictionary of labels

-----------------------------------------------------------------------------
(* Fractions. *)

RECURSIVE GCD(_, _)
GCD(a, b) == IF b = 0 THEN a ELSE GCD(b, a % b)

Abs(x) == IF x < 0 THEN -x ELSE x

\* n/d in lowest terms, d > 0
Rat(n, d) == LET g == GCD(Abs(n), d) IN [n |-> n \div g, d |-> d \div g]

NaN == [n |-> 0, d |-> 0]
Inf == [n |-> 1, d |-> 0]
Zero == [n |-> 0, d |-> 1]
One == [n |-> 1, d |-> 1]

\* the empty string '' in a float column
Blank == [n |-> 0, d |-> -1]

IsNaN(x) == x.d = 0 /\ x.n = 0
Finite(x) == x.d > 0

\* float comparisons: every comparison with not-a-number is false
RLt(a, b) ==
    /\ Finite(a) /\ Finite(b)
    /\ LET gn == GCD(Abs(a.n), Abs(b.n))
           gd == GCD(a.d, b.d)
       IN  IF gn = 0 THEN FALSE
           ELSE (a.n \div gn) * (b.d \div gd) < (b.n \div gn) * (a.d \div gd)
RGt(a, b) == RLt(b, a)
RLe(a, b) == Finite(a) /\ Finite(b) /\ ~RLt(b, a)
RGe(a, b) == RLe(b, a)

\* float product; not-a-number propagates
RMul(a, b) ==
    IF ~Finite(a) \/ ~Finite(b) THEN NaN
    ELSE LET g1 == GCD(Abs(a.n), b.d)
             g2 == GCD(Abs(b.n), a.d)
         IN  Rat((a.n \div g1) * (b.n \div g2), (a.d \div g2) * (b.d \div g1))

RSub(a, b) ==
    IF ~Finite(a) \/ ~Finite(b) THEN NaN
    ELSE LET g == GCD(a.d, b.d)
         IN  Rat(a.n * (b.d \div g) - b.n * (a.d \div g), (a.d \div g) * b.d)

RAdd(a, b) ==
    IF ~Finite(a) \/ ~Finite(b) THEN NaN
    ELSE LET g == GCD(a.d, b.d)
         IN  Rat(a.n * (b.d \div g) + b.n * (a.d \div g), (a.d \div g) * b.d)

\* a float times a non-negative integer, a float over a positive integer
RTimes(a, k) == RMul(a, [n |-> k, d |-> 1])
ROver(a, k) == RMul(a, [n |-> 1, d |-> k])

\* numpy's np.minimum: not-a-number propagates
NpMinimum(a, b) == IF IsNaN(a) \/ IsNaN(b) THEN NaN ELSE IF RLt(b, a) THEN b ELSE a

\* numpy's integer / integer: x/0 is inf (nan for 0/0), never an exception
NpDivide(x, y) == IF y = 0 THEN (IF x = 0 THEN NaN ELSE Inf) ELSE Rat(x, y)

RECURSIVE Choose(_, _)
Choose(n, k) == IF k < 0 \/ k > n THEN 0
                ELSE IF k = 0 THEN 1
                ELSE (Choose(n - 1, k - 1) * n) \div k

RECURSIVE SumTo(_, _, _)
\* f(lo) + ... + f(hi)
SumTo(f(_), lo, hi) == IF lo > hi THEN 0 ELSE f(lo) + SumTo(f, lo + 1, hi)

-----------------------------------------------------------------------------
(* The table (a pandas DataFrame): the set of columns it has and its rows  *)
(* in order.  A row holds its index key, the two count columns, the float  *)
(* columns (num) and the SGoF verdict column.  A column the table does not *)
(* have holds the placeholder NaN (or "") and is read only after a test    *)
(* that it is in cols.  label is the cell of the annotation column, 0      *)
(* while the table has no such column.                                     *)

NumCols == {"PercentageInInterest", "PercentageInReference",
            "pvalue_hypergeometric", "pvalue_normal_approximation",
            "pValueBonferroni", "pValueBenjaminiHochberg",
            "pValueBenjaminiYekutieli", "pValueHolm", "pValueSGoFValue"}

EmptyFrame == [cols |-> {}, rows |-> <<>>]

NewRow(key, interest, reference) ==
    [key |-> key, interest |-> interest, reference |-> reference,
     num |-> [c \in NumCols |-> NaN], sgof |-> "", label |-> 0]

\* df[col] = values (positional, one value per row)
SetColumn(df, col, values) ==
    [cols |-> df.cols \cup {col},
     rows |-> [i \in 1..Len(df.rows) |-> [df.rows[i] EXCEPT !.num[col] = values[i]]]]

Column(df, col) == [i \in 1..Len(df.rows) |-> df.rows[i].num[col]]

\* a must come strictly before b in an ascending sort; not-a-number sorts last
SortsBefore(a, b) == IF IsNaN(a) THEN FALSE ELSE IF IsNaN(b) THEN TRUE ELSE RLt(a, b)

RECURSIVE InsertSorted(_, _, _)
\* r put into the sorted rows s after every row that does not sort after it
InsertSorted(s, r, col) ==
    IF s = <<>> THEN <<r>>
    ELSE IF SortsBefore(r.num[col], Head(s).num[col]) THEN <<r>> \o s
    ELSE <<Head(s)>> \o InsertSorted(Tail(s), r, col)

RECURSIVE SortRows(_, _)
SortRows(rows, col) ==
    IF rows = <<>> THEN <<>>
    ELSE InsertSorted(SortRows(SubSeq(rows, 1, Len(rows) - 1), col), rows[Len(rows)], col)

\* df.sort_values(col): ascending, ties keep their order, not-a-number last
sort_values(df, col) == [df EXCEPT !.rows = SortRows(df.rows, col)]

\* a row has a missing value in a column the table has
HasNa(df, r) ==
    \/ \E c \in df.cols \cap NumCols : IsNaN(r.num[c])
    \/ "pValueSGoF" \in df.cols /\ r.sgof = "nan"

\* df.dropna(0): the rows without any missing value
dropna(df) == [df EXCEPT !.rows = SelectSeq(df.rows, LAMBDA r : ~HasNa(df, r))]

\* df.index.tolist()
IndexList(df) == [i \in 1..Len(df.rows) |-> df.rows[i].key]

-----------------------------------------------------------------------------
(* The test engine. *)

\* scipy.stats.hypergeom.sf(k, M, n, N): P(X > k) = 1 - cdf(k) for a population
\* of M with n successes and N draws; not-a-number outside the distribution's
\* parameter range
HypergeomSf(k, M, n, N) ==
    IF ~(M > 0 /\ n >= 0 /\ N >= 0 /\ n <= M /\ N <= M) THEN NaN
    ELSE LET pmf(j) == Choose(n, j) * Choose(M - n, N - j)
         IN  Rat(Choose(M, N) - SumTo(pmf, 0, k), Choose(M, N))

\* a variant that evaluates the survival function at k instead of k - 1
compute_hypergeometric_test_at_k(row, n_int, n_ref) ==
    HypergeomSf(row.interest, n_ref, row.reference, n_int)

compute_hypergeometric_test(row, n_int, n_ref) ==
    HypergeomSf(row.interest - 1, n_ref, row.reference, n_int)

\* scipy.stats.norm.sf(x, loc, scale) as a step function of z = (x - loc)/scale,
\* given the sign of x - loc and z^2
NormSf(positive, z2) ==
    LET upper == IF RLt(z2, Rat(1, 16)) THEN Rat(1, 2)
                 ELSE IF RLt(z2, Rat(1, 4)) THEN Rat(2, 5)
                 ELSE IF RLt(z2, One) THEN Rat(1, 4)
                 ELSE IF RLt(z2, Rat(9, 4)) THEN Rat(1, 10)
                 ELSE IF RLt(z2, Rat(4, 1)) THEN Rat(1, 25)
                 ELSE IF RLt(z2, Rat(9, 1)) THEN Rat(1, 100)
                 ELSE Rat(1, 1000)
    IN  IF positive THEN upper ELSE RSub(One, upper)

\* sigma^2 = n * p * q * (1 - t) as a fraction of integers
NormalVariance(row, n_int, n_ref) ==
    Rat(n_int * row.reference * (n_ref - row.reference) * (n_ref - n_int),
        n_ref * n_ref * n_ref)

\* the zero test of compute_normal_approximation
NormalDegenerate(row, n_int, n_ref) ==
    \/ n_int = 0
    \/ row.reference = 0
    \/ row.reference = n_ref
    \/ n_int = n_ref

\* math.sqrt raises ValueError on a negative argument
NormalRaises(row, n_int, n_ref) ==
    /\ ~NormalDegenerate(row, n_int, n_ref)
    /\ RLt(NormalVariance(row, n_int, n_ref), Zero)

compute_normal_approximation(row, n_int, n_ref) ==
    IF NormalDegenerate(row, n_int, n_ref) THEN NaN
    ELSE LET diff == row.interest * n_ref - n_int * row.reference  \* (k - mu) * N
             var == NormalVariance(row, n_int, n_ref)
             z2 == RMul(Rat(diff * diff, n_ref * n_ref), [n |-> var.d, d |-> var.n])
         IN  NormSf(diff >= 0, z2)

\* a variant that takes the normal approximation as soon as one count is higher
value_higher_threshold_any(df, threshold) ==
    \E i \in 1..Len(df.rows) : df.rows[i].interest > threshold

\* all(df[column_interest] > approximation_threshold)
value_higher_threshold(df, threshold) ==
    \A i \in 1..Len(df.rows) : df.rows[i].interest > threshold

\* a variant in which df.apply on a table without rows returns an empty column
ApplyReturnsEmptyColumn(df) == FALSE

\* df.apply(function, axis=1) on a table without rows calls the function on
\* an empty row, which raises, and then returns a copy of the table instead
\* of a column; assigning that table to one column raises ValueError
ApplyReturnsFrame(df) == Len(df.rows) = 0

\* test_on_dataframe: the mode, the column written into df (in place) and the
\* sorted copy returned; err is the exception raised, if any
test_on_dataframe(df, threshold, n_int, n_ref) ==
    IF value_higher_threshold(df, threshold) /\ ApplyReturnsFrame(df)
    THEN [statistic_method |-> "pvalue_normal_approximation", normal |-> TRUE,
          err |-> "ValueError", inplace |-> df, df |-> df]
    ELSE IF ~value_higher_threshold(df, threshold)
    THEN LET written == SetColumn(df, "pvalue_hypergeometric",
                 [i \in 1..Len(df.rows) |->
                     compute_hypergeometric_test(df.rows[i], n_int, n_ref)])
         IN  [statistic_method |-> "pvalue_hypergeometric", normal |-> FALSE,
              err |-> "none", inplace |-> written,
              df |-> sort_values(written, "pvalue_hypergeometric")]
    ELSE IF \E i \in 1..Len(df.rows) : NormalRaises(df.rows[i], n_int, n_ref)
    THEN [statistic_method |-> "pvalue_normal_approximation", normal |-> TRUE,
          err |-> "ValueError", inplace |-> df, df |-> df]
    ELSE LET written == SetColumn(df, "pvalue_normal_approximation",
                 [i \in 1..Len(df.rows) |->
                     compute_normal_approximation(df.rows[i], n_int, n_ref)])
         IN  [statistic_method |-> "pvalue_normal_approximation", normal |-> TRUE,
              err |-> "none", inplace |-> written,
              df |-> sort_values(written, "pvalue_normal_approximation")]

-----------------------------------------------------------------------------
(* The corrections.  Each takes the table and returns it with its column.  *)

\* df[stat].apply(lambda pvalue: 1 if pvalue * m > 1 else pvalue * m)
correction_bonferroni(df, stat) ==
    LET number_of_test == Len(df.rows)
        corrected(pvalue) == IF RGt(RTimes(pvalue, number_of_test), One) THEN One
                             ELSE RTimes(pvalue, number_of_test)
    IN  SetColumn(df, "pValueBonferroni",
                  [i \in 1..number_of_test |-> corrected(df.rows[i].num[stat])])

RECURSIVE MinimumAccumulateFromEnd(_, _)
\* np.minimum.accumulate(q[::-1])[::-1] at position i
MinimumAccumulateFromEnd(q, i) ==
    IF i = Len(q) THEN q[i] ELSE NpMinimum(MinimumAccumulateFromEnd(q, i + 1), q[i])

\* the step-up correction of the ascending p-values with the factor scale:
\* p * scale * (m / rank), cumulative minimum from the end, capped at 1
StepUp(pvalues, scale) ==
    LET number_of_test == Len(pvalues)
        q == [i \in 1..number_of_test |->
                 RMul(RMul(pvalues[i], scale), Rat(number_of_test, i))]
    IN  [i \in 1..number_of_test |-> NpMinimum(One, MinimumAccumulateFromEnd(q, i))]

\* a variant that multiplies by the number of tests without dividing by the
\* rank
correction_benjamini_hochberg_no_rank(df, stat) ==
    LET sorted == sort_values(df, stat)
        q == [i \in 1..Len(sorted.rows) |->
                 RTimes(sorted.rows[i].num[stat], Len(sorted.rows))]
    IN  SetColumn(sorted, "pValueBenjaminiHochberg",
                  [i \in 1..Len(sorted.rows) |->
                      NpMinimum(One, MinimumAccumulateFromEnd(q, i))])

correction_benjamini_hochberg(df, stat) ==
    LET sorted == sort_values(df, stat)
    IN  SetColumn(sorted, "pValueBenjaminiHochberg", StepUp(Column(sorted, stat), One))

RECURSIVE HarmonicSum(_)
\* c(m) = 1/1 + ... + 1/m, statsmodels' cm of method fdr_by
HarmonicSum(m) == IF m = 0 THEN Zero ELSE RAdd(HarmonicSum(m - 1), Rat(1, m))

\* the column correction_benjamini_yekutieli sorts by and corrects
BenjaminiYekutieliColumn == "pvalue_hypergeometric"

\* statsmodels multipletests(..., method="fdr_by")[1] on the column above;
\* KeyError when the table does not have that column
correction_benjamini_yekutieli(df) ==
    IF BenjaminiYekutieliColumn \notin df.cols THEN [err |-> "KeyError", df |-> df]
    ELSE LET sorted == sort_values(df, BenjaminiYekutieliColumn)
         IN  [err |-> "none",
              df |-> SetColumn(sorted, "pValueBenjaminiYekutieli",
                        StepUp(Column(sorted, BenjaminiYekutieliColumn),
                               HarmonicSum(Len(sorted.rows))))]

\* a variant of the turn that writes the capped candidate and keeps no maximum
HolmStepNoMaximum(pvalue, rank, number_of_test, pvalue_max, al) ==
    LET c0 == RTimes(pvalue, number_of_test - rank)
    IN  [value |-> IF RGt(c0, One) THEN One ELSE c0, pvalue_max |-> pvalue_max]

\* one turn of correction_holm's loop: the corrected value of the row at
\* 0-based position rank and the running maximum after it
HolmStep(pvalue, rank, number_of_test, pvalue_max, al) ==
    LET c0 == RTimes(pvalue, number_of_test - rank)
        c1 == IF RGt(c0, One) THEN One ELSE c0
        max1 == IF RGt(c1, pvalue_max) THEN c1 ELSE pvalue_max
        c2 == IF RGt(max1, c1) THEN max1 ELSE c1
        max2 == IF RGt(c2, al) /\ RLt(max1, c2) THEN c2 ELSE max1
    IN  [value |-> c2, pvalue_max |-> max2]

RECURSIVE HolmLoop(_, _, _)
\* the state of the loop after the first i rows: the values written so far
HolmLoop(pvalues, i, al) ==
    IF i = 0 THEN [values |-> <<>>, pvalue_max |-> Zero]
    ELSE LET before == HolmLoop(pvalues, i - 1, al)
             turn == HolmStep(pvalues[i], i - 1, Len(pvalues), before.pvalue_max, al)
         IN  [values |-> Append(before.values, turn.value),
              pvalue_max |-> turn.pvalue_max]

correction_holm(df, stat, al) ==
    LET sorted == sort_values(df, stat)
    IN  IF sorted.rows = <<>> THEN sorted
        ELSE SetColumn(sorted, "pValueHolm",
                       HolmLoop(Column(sorted, stat), Len(sorted.rows), al).values)

-----------------------------------------------------------------------------
(* The adjusted error rates and the selectors. *)

FixedPointOne == 1000 * 1000

RECURSIVE PowerFixed(_, _)
\* base^m in units of 1/FixedPointOne, rounded at every product
PowerFixed(base, m) ==
    IF m = 0 THEN FixedPointOne
    ELSE (PowerFixed(base, m - 1) * base.n + (base.d \div 2)) \div base.d

\* alpha / len(df.index); ZeroDivisionError on an empty table is raised by
\* the caller below
error_rate_adjustement_bonferroni(df, al) ==
    [sidak |-> FALSE, value |-> ROver(al, Len(df.rows)), alpha |-> al,
     number_of_test |-> Len(df.rows)]

\* 1 - (1 - alpha)^(1 / len(df.index)), kept as its two arguments: the root
\* is not a fraction
error_rate_adjustement_sidak(df, al) ==
    [sidak |-> TRUE, value |-> NaN, alpha |-> al, number_of_test |-> Len(df.rows)]

\* pvalue < error_rate.  For Sidak, p < 1 - (1 - alpha)^(1/m) is decided as
\* (1 - p)^m > 1 - alpha
BelowErrorRate(pvalue, error_rate) ==
    IF ~error_rate.sidak THEN RLt(pvalue, error_rate.value)
    ELSE /\ Finite(pvalue)
         /\ RLe(pvalue, One)
         /\ RLt(RSub(One, error_rate.alpha),
                Rat(PowerFixed(RSub(One, pvalue), error_rate.number_of_test),
                    FixedPointOne))

\* a variant that also selects a p-value equal to the error rate
selection_object_with_adjusted_error_rate_or_equal(error_rate, df, stat) ==
    IndexList(dropna([df EXCEPT !.rows = SelectSeq(df.rows,
        LAMBDA r : BelowErrorRate(r.num[stat], error_rate)
                   \/ (~error_rate.sidak /\ r.num[stat] = error_rate.value))]))

\* df[df[stat] < error_rate].dropna(0).index.tolist()
selection_object_with_adjusted_error_rate(error_rate, df, stat) ==
    IndexList(dropna([df EXCEPT !.rows = SelectSeq(df.rows,
        LAMBDA r : BelowErrorRate(r.num[stat], error_rate))]))

\* df.replace('', np.nan, regex=True, inplace=True): pandas does not use an
\* empty pattern as a regular expression, so the cells equal to the empty
\* string, in every column the table has, become not-a-number
ReplaceEmptyByNaN(df) ==
    [df EXCEPT !.rows = [i \in 1..Len(df.rows) |->
        [df.rows[i] EXCEPT
           !.sgof = IF "pValueSGoF" \in df.cols /\ @ = "" THEN "nan" ELSE @,
           !.num = [c \in NumCols |-> IF c \in df.cols /\ @[c] = Blank THEN NaN ELSE @[c]]]]]

\* df[df['pValue' + method_name] < alpha].dropna(0).index.tolist(), on the
\* table after the replacement above
selection_object_with_adjusted_pvalue(method_name, df, al) ==
    LET replaced == ReplaceEmptyByNaN(df)
    IN  [df |-> replaced,
         list |-> IndexList(dropna([replaced EXCEPT !.rows = SelectSeq(replaced.rows,
                     LAMBDA r : RLt(r.num["pValue" \o method_name], al))]))]

multiple_test_names == <<"Sidak", "Bonferroni", "Holm", "BenjaminiHochberg",
                         "BenjaminiYekutieli">>

NoLists == [name \in {} |-> <<>>]

\* the result of a call: the exception raised (if any), the table returned
\* and the method -> keys map
Raised(err, at) ==
    [err |-> err, at |-> at, df |-> EmptyFrame, significative_objects |-> NoLists]

\* the loop of multiple_testing_correction over multiple_test_names, on the
\* corrected table df; the three selections on corrected p-values are made
\* in the loop's order, each on the table the one before left
SelectionLoop(df, stat, al, holm, bh, yekutieli) ==
    [err |-> "none", at |-> "return", df |-> yekutieli.df,
     significative_objects |->
        [name \in {multiple_test_names[i] : i \in 1..Len(multiple_test_names)} |->
           CASE name = "Sidak" ->
                  selection_object_with_adjusted_error_rate(
                      error_rate_adjustement_sidak(df, al), df, stat)
             [] name = "Bonferroni" ->
                  selection_object_with_adjusted_error_rate(
                      error_rate_adjustement_bonferroni(df, al), df, stat)
             [] name = "Holm" -> holm.list
             [] name = "BenjaminiHochberg" -> bh.list
             [] name = "BenjaminiYekutieli" -> yekutieli.list]]

SelectionAfterBenjaminiHochberg(df, stat, al, holm, bh) ==
    SelectionLoop(df, stat, al, holm, bh,
        selection_object_with_adjusted_pvalue("BenjaminiYekutieli", bh.df, al))

SelectionAfterHolm(df, stat, al, holm) ==
    SelectionAfterBenjaminiHochberg(df, stat, al, holm,
        selection_object_with_adjusted_pvalue("BenjaminiHochberg", holm.df, al))

\* the selections on the corrected table; the error rates divide by the
\* number of rows (ZeroDivisionError on an empty table)
Selections(df, stat, al) ==
    IF Len(df.rows) = 0 THEN Raised("ZeroDivisionError", "error_rate_adjustement_sidak")
    ELSE SelectionAfterHolm(df, stat, al,
             selection_object_with_adjusted_pvalue("Holm", df, al))

AfterBenjaminiYekutieli(by, stat, al) ==
    IF by.err # "none" THEN Raised(by.err, "correction_benjamini_yekutieli")
    ELSE Selections(correction_holm(by.df, stat, al), stat, al)

\* PandasBasedEnrichmentAnalysis.multiple_testing_correction: sort, then
\* Bonferroni, Benjamini-Hochberg, Benjamini-Yekutieli, Holm, then the
\* selections
multiple_testing_correction(df, stat, al) ==
    AfterBenjaminiYekutieli(
        correction_benjamini_yekutieli(
            correction_benjamini_hochberg(
                correction_bonferroni(sort_values(df, stat), stat), stat)),
        stat, al)

-----------------------------------------------------------------------------
(* SGoF (EnrichmentAnalysisExperimental). *)

SmallSampleLimit == 10

RECURSIVE BinomPmfFixed(_, _, _)
\* the binomial probability of j successes in m trials of probability al, in
\* units of 1/FixedPointOne: pmf(0) = (1 - al)^m,
\* pmf(j) = pmf(j - 1) * (m - j + 1) / j * al / (1 - al), rounded
BinomPmfFixed(j, m, al) ==
    IF j = 0 THEN PowerFixed(RSub(One, al), m)
    ELSE LET den == j * (al.d - al.n)
         IN  (BinomPmfFixed(j - 1, m, al) * ((m - j + 1) * al.n) + (den \div 2)) \div den

\* scipy.stats.binom.sf(k, m, al): P(X > k)
BinomSf(k, m, al) ==
    LET pmf(j) == BinomPmfFixed(j, m, al)
        below == SumTo(pmf, 0, k)
    IN  Rat(IF below > FixedPointOne THEN 0 ELSE FixedPointOne - below, FixedPointOne)

\* the column correction_sgof sorts by and counts in
SGoFColumn == "pvalue_hypergeometric"

\* correction_sgof for number_pvalue <= 10: the first R rows get the binomial
\* survival values of ranks R, ..., 1 and the verdict 'significant' where the
\* value is at most alpha; the other rows get not-a-number in both columns
SGoFSmallSample(sorted, R, al) ==
    LET number_pvalue == Len(sorted.rows)
        reordered_pvalues == [i \in 1..R |-> BinomSf(R + 1 - i, number_pvalue, al)]
    IN  [cols |-> sorted.cols \cup {"pValueSGoF", "pValueSGoFValue"},
         rows |-> [i \in 1..number_pvalue |->
            [sorted.rows[i] EXCEPT
               !.sgof = IF i <= R /\ RLe(reordered_pvalues[i], al)
                        THEN "significant" ELSE "nan",
               !.num["pValueSGoFValue"] =
                        IF i <= R THEN reordered_pvalues[i] ELSE NaN]]]

\* np.log of the integers 1..20, in units of 1/FixedPointOne
LogTable == <<0, 693147, 1098612, 1386294, 1609438, 1791759, 1945910, 2079442,
              2197225, 2302585, 2397895, 2484907, 2564949, 2639057, 2708050,
              2772589, 2833213, 2890372, 2944439, 2995732>>

\* np.log(a * b / (c * d)) for integers of the table
LogOfRatio(a, b, c, d) == LogTable[a] + LogTable[b] - LogTable[c] - LogTable[d]

\* prob_each_pvalues at rank r (the entry r - 1 of the arrays): twice the sum
\* of r * log(r / (m * alpha)) and (m - r) * log((m - r) / (m * (1 - alpha)))
\* divided by the Williams factor 1 + 1/(2m).  For r = m numpy computes
\* 0 * log(0) = 0 * -inf, which is not-a-number
SGoFStatistic(r, number_pvalue, al) ==
    IF number_pvalue - r <= 0 THEN NaN
    ELSE LET below_alpha == r * LogOfRatio(r, al.d, number_pvalue, al.n)
             above_alpha == (number_pvalue - r)
                              * LogOfRatio(number_pvalue - r, al.d, number_pvalue,
                                           al.d - al.n)
             correction_above_alpha ==
                 (above_alpha * (2 * number_pvalue) + number_pvalue)
                     \div (2 * number_pvalue + 1)
         IN  Rat(2 * (below_alpha + correction_above_alpha), FixedPointOne)

\* stats.chi2.ppf(1 - alpha, 1) for the values of alpha drawn
ChiSquareCritical(al) ==
    IF al = Rat(1, 20) THEN Rat(3841459, FixedPointOne)
    ELSE Rat(454936, FixedPointOne)

\* the R used by the large-sample branch: R - 1 when every p-value is below
\* alpha
SGoFRanks(R, number_pvalue) == IF number_pvalue = R THEN R - 1 ELSE R

\* the test made for every value of the loop: the last statistic (rank
\* R + 1) is at least the one before it (rank R); with one statistic only
\* there is no such test
SGoFLastTwoInOrder(R, number_pvalue, al) ==
    \/ R + 1 = 1
    \/ RGe(SGoFStatistic(R + 1, number_pvalue, al), SGoFStatistic(R, number_pvalue, al))

\* the row at 1-based position i gets the statistic of rank R + 2 - i
\* (reordered_pvalues is the reversed array) and is marked when the test
\* above holds and the statistic reaches the critical value
SGoFMarked(i, R, number_pvalue, al) ==
    /\ i <= R + 1
    /\ SGoFLastTwoInOrder(R, number_pvalue, al)
    /\ RGe(SGoFStatistic(R + 2 - i, number_pvalue, al), ChiSquareCritical(al))

\* correction_sgof for number_pvalue > 10; counted is the number of p-values
\* below alpha before its adjustment
SGoFLargeSample(sorted, counted, al) ==
    LET number_pvalue == Len(sorted.rows)
        R == SGoFRanks(counted, number_pvalue)
    IN  [cols |-> sorted.cols \cup {"pValueSGoF", "pValueSGoFValue"},
         rows |-> [i \in 1..number_pvalue |->
            [sorted.rows[i] EXCEPT
               !.sgof = IF counted # 0 /\ SGoFMarked(i, R, number_pvalue, al)
                        THEN "significant" ELSE "nan",
               !.num["pValueSGoFValue"] =
                        IF SGoFMarked(i, R, number_pvalue, al)
                        THEN SGoFStatistic(R + 2 - i, number_pvalue, al) ELSE NaN]]]

\* the number of p-values of the column below alpha
CountBelow(df, col, al) ==
    Cardinality({i \in 1..Len(df.rows) : RLt(df.rows[i].num[col], al)})

SGoFBranch(sorted, al) ==
    IF Len(sorted.rows) <= SmallSampleLimit
    THEN SGoFSmallSample(sorted, CountBelow(sorted, SGoFColumn, al), al)
    ELSE SGoFLargeSample(sorted, CountBelow(sorted, SGoFColumn, al), al)

\* EnrichmentAnalysisExperimental.correction_sgof; KeyError when the table
\* does not have the column it sorts by
correction_sgof(df, al) ==
    IF SGoFColumn \notin df.cols THEN [err |-> "KeyError", df |-> df]
    ELSE [err |-> "none", df |-> SGoFBranch(sort_values(df, SGoFColumn), al)]

\* df.replace(np.nan, '', regex=True, inplace=True): every missing value of
\* every column the table has becomes the empty string
ReplaceNaNByEmpty(df) ==
    [df EXCEPT !.rows = [i \in 1..Len(df.rows) |->
        [df.rows[i] EXCEPT
           !.sgof = IF @ = "nan" THEN "" ELSE @,
           !.num = [c \in NumCols |-> IF c \in df.cols /\ IsNaN(@[c]) THEN Blank ELSE @[c]]]]]

\* a variant that selects every row with a binomial value, whatever its verdict
selection_object_with_sgof_all_valued(df) ==
    LET replaced == ReplaceNaNByEmpty(df)
    IN  [df |-> replaced,
         list |-> IndexList([replaced EXCEPT !.rows = SelectSeq(replaced.rows,
                     LAMBDA r : Finite(r.num["pValueSGoFValue"]))])]

\* df[df['pValueSGoF'] == 'significant'].dropna(0).index.tolist(), on the
\* table after the replacement above
selection_object_with_sgof(df) ==
    LET replaced == ReplaceNaNByEmpty(df)
    IN  [df |-> replaced,
         list |-> IndexList(dropna([replaced EXCEPT !.rows = SelectSeq(replaced.rows,
                     LAMBDA r : r.sgof = "significant")]))]

\* EnrichmentAnalysisExperimental.multiple_test_names
experimental_test_names == <<"Sidak", "Bonferroni", "Holm", "SGoF", "BenjaminiHochberg",
                             "BenjaminiYekutieli">>

\* the loop of EnrichmentAnalysisExperimental.multiple_testing_correction
\* over its multiple_test_names, on the corrected table df; the selections
\* after Bonferroni are made in the loop's order, each on the table the one
\* before left
ExperimentalSelectionLoop(df, stat, al, holm, sgof, bh, yekutieli) ==
    [err |-> "none", at |-> "return", df |-> yekutieli.df,
     significative_objects |->
        [name \in {experimental_test_names[i] : i \in 1..Len(experimental_test_names)} |->
           CASE name = "Sidak" ->
                  selection_object_with_adjusted_error_rate(
                      error_rate_adjustement_sidak(df, al), df, stat)
             [] name = "Bonferroni" ->
                  selection_object_with_adjusted_error_rate(
                      error_rate_adjustement_bonferroni(df, al), df, stat)
             [] name = "Holm" -> holm.list
             [] name = "SGoF" -> sgof.list
             [] name = "BenjaminiHochberg" -> bh.list
             [] name = "BenjaminiYekutieli" -> yekutieli.list]]

ExperimentalAfterBenjaminiHochberg(df, stat, al, holm, sgof, bh) ==
    ExperimentalSelectionLoop(df, stat, al, holm, sgof, bh,
        selection_object_with_adjusted_pvalue("BenjaminiYekutieli", bh.df, al))

ExperimentalAfterSgof(df, stat, al, holm, sgof) ==
    ExperimentalAfterBenjaminiHochberg(df, stat, al, holm, sgof,
        selection_object_with_adjusted_pvalue("BenjaminiHochberg", sgof.df, al))

ExperimentalAfterHolm(df, stat, al, holm) ==
    ExperimentalAfterSgof(df, stat, al, holm, selection_object_with_sgof(holm.df))

ExperimentalSelections(sgof, stat, al) ==
    IF sgof.err # "none" THEN Raised(sgof.err, "correction_sgof")
    ELSE IF Len(sgof.df.rows) = 0
    THEN Raised("ZeroDivisionError", "error_rate_adjustement_sidak")
    ELSE ExperimentalAfterHolm(sgof.df, stat, al,
             selection_object_with_adjusted_pvalue("Holm", sgof.df, al))

ExperimentalAfterBenjaminiYekutieli(by, stat, al) ==
    IF by.err # "none" THEN Raised(by.err, "correction_benjamini_yekutieli")
    ELSE ExperimentalSelections(correction_sgof(correction_holm(by.df, stat, al), al),
                                stat, al)

\* EnrichmentAnalysisExperimental.multiple_testing_correction: sort, then
\* Bonferroni, Benjamini-Hochberg, Benjamini-Yekutieli, Holm, SGoF, then the
\* selections
experimental_multiple_testing_correction(df, stat, al) ==
    ExperimentalAfterBenjaminiYekutieli(
        correction_benjamini_yekutieli(
            correction_benjamini_hochberg(
                correction_bonferroni(sort_values(df, stat), stat), stat)),
        stat, al)

-----------------------------------------------------------------------------
(* The translation of keys to labels (AnnotationEnrichmentAnalysis). *)

\* the name given as annotation_category
AnnotationColumn == "annotation_category"

\* a dictionary without entries
NoLabels == [key \in {} |-> 0]

\* tranlsation_id_to_label: the labels of the keys the dictionary has, in order
tranlsation_id_to_label(annotation_numbers, dictionary) ==
    LET found == SelectSeq(annotation_numbers, LAMBDA a : a \in DOMAIN dictionary)
    IN  [i \in 1..Len(found) |-> dictionary[found[i]]]

\* df[self.annotation] = labels: one value per row is required
SetAnnotation(df, labels) ==
    [cols |-> df.cols \cup {AnnotationColumn},
     rows |-> [i \in 1..Len(df.rows) |-> [df.rows[i] EXCEPT !.label = labels[i]]]]

\* the lists translated in the loop, then the column of labels assigned from
\* the labels of the keys found in the dictionary; inplace is the caller's
\* table, which every step changes in place
AnnotationTranslation(run, labels, dictionary) ==
    IF Len(labels) # Len(run.df.rows)
    THEN [err |-> "ValueError", at |-> "multiple_testing_correction",
          df |-> EmptyFrame, significative_objects |-> NoLists, inplace |-> run.df]
    ELSE [err |-> "none", at |-> "return", df |-> SetAnnotation(run.df, labels),
          significative_objects |->
             [name \in DOMAIN run.significative_objects |->
                 tranlsation_id_to_label(run.significative_objects[name], dictionary)],
          inplace |-> SetAnnotation(run.df, labels)]

\* the caller's table when a correction or an error rate raised
AnnotationCorrected(by, stat, al) ==
    IF by.err # "none" THEN by.df ELSE correction_holm(by.df, stat, al)

AnnotationAfterSelections(run, corrected, dictionary) ==
    IF run.err # "none"
    THEN [err |-> run.err, at |-> run.at, df |-> EmptyFrame,
          significative_objects |-> NoLists, inplace |-> corrected]
    ELSE AnnotationTranslation(run,
             tranlsation_id_to_label(IndexList(run.df), dictionary), dictionary)

\* AnnotationEnrichmentAnalysis.multiple_testing_correction: the table is
\* sorted in place, corrected and selected from as in the base class, the
\* lists are translated and the column of labels is added
annotation_multiple_testing_correction(df, stat, al, dictionary) ==
    AnnotationAfterSelections(
        multiple_testing_correction(df, stat, al),
        AnnotationCorrected(
            correction_benjamini_yekutieli(
                correction_benjamini_hochberg(
                    correction_bonferroni(sort_values(df, stat), stat), stat)),
            stat, al),
        dictionary)

-----------------------------------------------------------------------------
(* The driver. *)

\* (numerator / denominator) * 100 on a count column
percentage_calculator(numerator, denominator) == NpDivide(numerator * 100, denominator)

WithPercentages(df, n_int, n_ref) ==
    SetColumn(
        SetColumn(df, "PercentageInInterest",
            [i \in 1..Len(df.rows) |-> percentage_calculator(df.rows[i].interest, n_int)]),
        "PercentageInReference",
        [i \in 1..Len(df.rows) |-> percentage_calculator(df.rows[i].reference, n_ref)])

\* writing_output sorts the table it is given in place before it writes it
writing_output(df) == sort_values(df, "pValueBenjaminiHochberg")

\* what enrichment_analysis leaves in self.dataframe (test.inplace: the
\* columns written in place), what it returns, what it raises and where
AnalysisResult(test, corr, answer) ==
    IF test.err # "none"
    THEN [err |-> test.err, at |-> "test_on_dataframe", test |-> test,
          df |-> EmptyFrame, significative_objects |-> NoLists]
    ELSE IF corr.err # "none"
    THEN [err |-> corr.err, at |-> corr.at, test |-> test,
          df |-> EmptyFrame, significative_objects |-> NoLists]
    ELSE [err |-> "none", at |-> "return", test |-> test,
          df |-> IF answer THEN writing_output(corr.df) ELSE corr.df,
          significative_objects |-> corr.significative_objects]

AfterTest(test, al, answer) ==
    AnalysisResult(test,
        IF test.err # "none" THEN Raised(test.err, "test_on_dataframe")
        ELSE multiple_testing_correction(test.df, test.statistic_method, al),
        answer)

\* enrichment_analysis: percentages, test engine, corrections and
\* selections, then the prompt and writing_output
enrichment_analysis(df, threshold, n_int, n_ref, al, answer) ==
    AfterTest(test_on_dataframe(WithPercentages(df, n_int, n_ref), threshold,
                                n_int, n_ref),
              al, answer)

-----------------------------------------------------------------------------
(* The analysis object on tables of counts. *)

\* the count tables drawn: keys 1..m, count_interest <= count_reference
CountPairs == {pair \in (0..MaxReference) \X (0..MaxReference) : pair[1] <= pair[2]}

CountTables ==
    UNION {[1..m -> CountPairs] : m \in 0..MaxRows}

FrameOfCounts(table) ==
    [cols |-> {},
     rows |-> [i \in 1..Len(table) |-> NewRow(i, table[i][1], table[i][2])]]

Thresholds == {0, 1}

\* __init__: the arguments are stored as given
Init ==
    /\ number_of_analyzed_object_of_interest \in 0..MaxReference
    /\ number_of_analyzed_object_of_reference \in 1..MaxReference
    /\ alpha = Rat(1, 2)
    /\ normal_approximation_threshold \in Thresholds
    /\ statistic_method = ""
    /\ output_columns = "pvalue_hypergeometric"
    /\ \E table \in CountTables : dataframe = FrameOfCounts(table)
    /\ returned = EmptyFrame
    /\ significative_objects = NoLists
    /\ error = "none"
    /\ op = "__init__"
    /\ reached = "return"
    /\ calls = 0
    /\ suite = "base"
    /\ annotation_id_to_labels = NoLabels

\* a variant of the setter that stores the value before it tests it
SetInterestStoresFirst(value) ==
    /\ calls < MaxCalls
    /\ calls' = calls + 1
    /\ op' = "number_of_analyzed_object_of_interest"
    /\ number_of_analyzed_object_of_interest' = value
    /\ IF value > number_of_analyzed_object_of_reference
       THEN error' = "ValueError" /\ reached' = "raise"
       ELSE error' = "none" /\ reached' = "return"
    /\ returned' = EmptyFrame
    /\ significative_objects' = NoLists
    /\ UNCHANGED <<number_of_analyzed_object_of_reference, alpha,
                   normal_approximation_threshold, statistic_method, output_columns,
                   dataframe, suite, annotation_id_to_labels>>

\* number_of_analyzed_object_of_interest.setter
SetInterest(value) ==
    /\ calls < MaxCalls
    /\ calls' = calls + 1
    /\ op' = "number_of_analyzed_object_of_interest"
    /\ IF value > number_of_analyzed_object_of_reference
       THEN /\ error' = "ValueError"
            /\ reached' = "raise"
            /\ UNCHANGED number_of_analyzed_object_of_interest
       ELSE /\ error' = "none"
            /\ reached' = "return"
            /\ number_of_analyzed_object_of_interest' = value
    /\ returned' = EmptyFrame
    /\ significative_objects' = NoLists
    /\ UNCHANGED <<number_of_analyzed_object_of_reference, alpha,
                   normal_approximation_threshold, statistic_method, output_columns,
                   dataframe, suite,
                   annotation_id_to_labels>>

\* number_of_analyzed_object_of_reference.setter
SetReference(value) ==
    /\ calls < MaxCalls
    /\ calls' = calls + 1
    /\ op' = "number_of_analyzed_object_of_reference"
    /\ IF value < number_of_analyzed_object_of_interest
       THEN /\ error' = "ValueError"
            /\ reached' = "raise"
            /\ UNCHANGED number_of_analyzed_object_of_reference
       ELSE /\ error' = "none"
            /\ reached' = "return"
            /\ number_of_analyzed_object_of_reference' = value
    /\ returned' = EmptyFrame
    /\ significative_objects' = NoLists
    /\ UNCHANGED <<number_of_analyzed_object_of_interest, alpha,
                   normal_approximation_threshold, statistic_method, output_columns,
                   dataframe, suite,
                   annotation_id_to_labels>>

\* normal_approximation_threshold.setter
SetThreshold(value) ==
    /\ calls < MaxCalls
    /\ calls' = calls + 1
    /\ op' = "normal_approximation_threshold"
    /\ reached' = "return"
    /\ error' = "none"
    /\ normal_approximation_threshold' = value
    /\ returned' = EmptyFrame
    /\ significative_objects' = NoLists
    /\ UNCHANGED <<number_of_analyzed_object_of_interest,
                   number_of_analyzed_object_of_reference, alpha, statistic_method,
                   output_columns, dataframe, suite,
                   annotation_id_to_labels>>

\* the effect of a run of enrichment_analysis on the object
EnrichmentAnalysisDone(run) ==
    /\ calls < MaxCalls
    /\ calls' = calls + 1
    /\ op' = "enrichment_analysis"
    /\ error' = run.err
    /\ reached' = run.at
    /\ statistic_method' = run.test.statistic_method
    /\ output_columns' = IF run.test.normal THEN "pvalue_normal_approximation"
                         ELSE output_columns
    /\ dataframe' = run.test.inplace
    /\ returned' = run.df
    /\ significative_objects' = run.significative_objects
    /\ UNCHANGED <<number_of_analyzed_object_of_interest,
                   number_of_analyzed_object_of_reference, alpha,
                   normal_approximation_threshold, suite,
                   annotation_id_to_labels>>

\* PandasBasedEnrichmentAnalysis.enrichment_analysis, with the answer given
\* to its prompt
EnrichmentAnalysis(answer) ==
    EnrichmentAnalysisDone(
        enrichment_analysis(dataframe, normal_approximation_threshold,
            number_of_analyzed_object_of_interest,
            number_of_analyzed_object_of_reference, alpha, answer))

Next ==
    \/ \E value \in 0..MaxReference : SetInterest(value)
    \/ \E value \in 1..MaxReference : SetReference(value)
    \/ \E value \in Thresholds : SetThreshold(value)
    \/ \E answer \in BOOLEAN : EnrichmentAnalysis(answer)

Spec == Init /\ [][Next]_vars

-----------------------------------------------------------------------------
(* The corrections on tables of raw p-values: the object is given a table   *)
(* that already has its raw p-value column, sorted ascending as the test    *)
(* engine leaves it, statistic_method names that column, and the            *)
(* corrections are called on the table.                                     *)

PValues == {Zero, Rat(1, 1000), Rat(1, 100), Rat(1, 50), Rat(1, 20), Rat(1, 5),
            Rat(1, 2), One}

ShortPValues == {Rat(1, 100), Rat(1, 50), Rat(1, 2)}

Alphas == {Rat(1, 20), Rat(1, 2)}

RECURSIVE Ascending(_, _)
\* the ascending sequences of m of the values
Ascending(m, values) ==
    IF m = 0 THEN {<<>>}
    ELSE UNION {{Append(t, v) : v \in {w \in values : m = 1 \/ RLe(t[m - 1], w)}} :
                   t \in Ascending(m - 1, values)}

\* the table with the raw p-values t in the column stat
FrameOfPValues(t, stat) ==
    SetColumn([cols |-> {}, rows |-> [i \in 1..Len(t) |-> NewRow(i, 0, 0)]], stat, t)

CorrectionFrames ==
    \* hypergeometric mode
    {FrameOfPValues(t, "pvalue_hypergeometric") :
        t \in UNION {Ascending(m, PValues) : m \in 1..MaxRowsCorr}}
    \cup
    {FrameOfPValues(t, "pvalue_hypergeometric") :
        t \in UNION {Ascending(m, ShortPValues) : m \in (MaxRowsCorr + 1)..MaxRowsLong}}
    \cup
    \* tables of the large-sample branch of SGoF
    {FrameOfPValues(t, "pvalue_hypergeometric") :
        t \in UNION {Ascending(m, ShortPValues) : m \in (SmallSampleLimit + 1)..MaxRowsLarge}}
    \cup
    \* normal-approximation mode, without and with a 'pvalue_hypergeometric'
    \* column left in the table
    {FrameOfPValues(t, "pvalue_normal_approximation") :
        t \in UNION {Ascending(m, PValues) : m \in 1..MaxRowsStale}}
    \cup
    UNION {{SetColumn(FrameOfPValues(t, "pvalue_normal_approximation"),
                      "pvalue_hypergeometric", u) : u \in [1..Len(t) -> ShortPValues]} :
              t \in UNION {Ascending(m, PValues) : m \in 1..MaxRowsStale}}

\* the dictionaries drawn: any part of the keys, each with its label
LabelOf(key) == 100 + key

Dictionaries ==
    {[key \in keys |-> LabelOf(key)] : keys \in SUBSET (1..MaxRowsAnnotation)}

StatisticColumnOf(df) ==
    IF "pvalue_normal_approximation" \in df.cols THEN "pvalue_normal_approximation"
    ELSE "pvalue_hypergeometric"

InitCorr ==
    /\ number_of_analyzed_object_of_interest = 1
    /\ number_of_analyzed_object_of_reference = 1
    /\ alpha \in Alphas
    /\ normal_approximation_threshold = 0
    /\ dataframe \in CorrectionFrames
    /\ statistic_method = StatisticColumnOf(dataframe)
    /\ output_columns = statistic_method
    /\ returned = EmptyFrame
    /\ significative_objects = NoLists
    /\ error = "none"
    /\ op = "__init__"
    /\ reached = "return"
    /\ calls = 0
    /\ suite \in {"base", "experimental", "annotation"}
    /\ IF suite = "annotation"
       THEN /\ Len(dataframe.rows) <= MaxRowsAnnotation
            /\ annotation_id_to_labels \in Dictionaries
       ELSE annotation_id_to_labels = NoLabels

MultipleTestingCorrectionDone(run) ==
    /\ suite = "base"
    /\ op = "__init__"
    /\ op' = "multiple_testing_correction"
    /\ calls' = calls + 1
    /\ error' = run.err
    /\ reached' = run.at
    /\ returned' = run.df
    /\ significative_objects' = run.significative_objects
    /\ UNCHANGED <<number_of_analyzed_object_of_interest,
                   number_of_analyzed_object_of_reference, alpha,
                   normal_approximation_threshold, statistic_method,
                   output_columns, dataframe, suite,
                   annotation_id_to_labels>>

\* PandasBasedEnrichmentAnalysis.multiple_testing_correction(self.dataframe):
\* it works on a sorted copy of the table
MultipleTestingCorrection ==
    MultipleTestingCorrectionDone(
        multiple_testing_correction(dataframe, statistic_method, alpha))

CorrectionSgofDone(run) ==
    /\ suite = "experimental"
    /\ op = "__init__"
    /\ op' = "correction_sgof"
    /\ calls' = calls + 1
    /\ error' = run.err
    /\ reached' = (IF run.err = "none" THEN "return" ELSE "correction_sgof")
    /\ dataframe' = run.df
    /\ returned' = IF run.err = "none" THEN run.df ELSE EmptyFrame
    /\ significative_objects' = NoLists
    /\ UNCHANGED <<number_of_analyzed_object_of_interest,
                   number_of_analyzed_object_of_reference, alpha,
                   normal_approximation_threshold, statistic_method,
                   output_columns, suite,
                   annotation_id_to_labels>>

\* EnrichmentAnalysisExperimental.correction_sgof(self.dataframe): the table
\* is changed in place and returned
CorrectionSgof == CorrectionSgofDone(correction_sgof(dataframe, alpha))

SelectionObjectWithSgofDone(selection) ==
    /\ suite = "experimental"
    /\ op = "correction_sgof"
    /\ error = "none"
    /\ op' = "selection_object_with_sgof"
    /\ calls' = calls + 1
    /\ error' = "none"
    /\ reached' = "return"
    /\ dataframe' = selection.df
    /\ returned' = selection.df
    /\ significative_objects' = [name \in {"SGoF"} |-> selection.list]
    /\ UNCHANGED <<number_of_analyzed_object_of_interest,
                   number_of_analyzed_object_of_reference, alpha,
                   normal_approximation_threshold, statistic_method,
                   output_columns, suite,
                   annotation_id_to_labels>>

\* EnrichmentAnalysisExperimental.selection_object_with_sgof('SGoF', df) on
\* the table correction_sgof returned
SelectionObjectWithSgof ==
    SelectionObjectWithSgofDone(selection_object_with_sgof(dataframe))

\* EnrichmentAnalysisExperimental.multiple_testing_correction(self.dataframe):
\* it works on a sorted copy of the table
ExperimentalMultipleTestingCorrectionDone(run) ==
    /\ suite = "experimental"
    /\ op = "__init__"
    /\ op' = "multiple_testing_correction"
    /\ calls' = calls + 1
    /\ error' = run.err
    /\ reached' = run.at
    /\ returned' = run.df
    /\ significative_objects' = run.significative_objects
    /\ UNCHANGED <<number_of_analyzed_object_of_interest,
                   number_of_analyzed_object_of_reference, alpha,
                   normal_approximation_threshold, statistic_method,
                   output_columns, dataframe, suite,
                   annotation_id_to_labels>>

ExperimentalMultipleTestingCorrection ==
    ExperimentalMultipleTestingCorrectionDone(
        experimental_multiple_testing_correction(dataframe, statistic_method, alpha))

\* AnnotationEnrichmentAnalysis.multiple_testing_correction(self.dataframe):
\* it works on the table itself
AnnotationMultipleTestingCorrectionDone(run) ==
    /\ suite = "annotation"
    /\ op = "__init__"
    /\ op' = "multiple_testing_correction"
    /\ calls' = calls + 1
    /\ error' = run.err
    /\ reached' = run.at
    /\ dataframe' = run.inplace
    /\ returned' = run.df
    /\ significative_objects' = run.significative_objects
    /\ UNCHANGED <<number_of_analyzed_object_of_interest,
                   number_of_analyzed_object_of_reference, alpha,
                   normal_approximation_threshold, statistic_method,
                   output_columns, suite, annotation_id_to_labels>>

AnnotationMultipleTestingCorrection ==
    AnnotationMultipleTestingCorrectionDone(
        annotation_multiple_testing_correction(dataframe, statistic_method, alpha,
                                               annotation_id_to_labels))

NextCorr ==
    \/ MultipleTestingCorrection
    \/ AnnotationMultipleTestingCorrection
    \/ ExperimentalMultipleTestingCorrection
    \/ CorrectionSgof
    \/ SelectionObjectWithSgof

SpecCorr == InitCorr /\ [][NextCorr]_vars

-----------------------------------------------------------------------------
(* Properties. *)

RanAnalysis == op = "enrichment_analysis"

RowsOf(df) == 1..Len(df.rows)

NonDecreasing(values) ==
    \A i \in 1..(Len(values) - 1) : RLe(values[i], values[i + 1])

InList(key, list) == \E i \in 1..Len(list) : list[i] = key

\* C1: the number of objects of interest never exceeds the number of objects
\* of reference, in any state of the object (after construction and after
\* every setter call).
C1_InterestWithinReference ==
    number_of_analyzed_object_of_interest <= number_of_analyzed_object_of_reference

\* C2: a call of enrichment_analysis on an object with n_interest >
\* n_reference ends by raising a configuration error before the test engine
\* or any correction is entered.
C2_AnalysisValidatesSizes ==
    (RanAnalysis /\ number_of_analyzed_object_of_interest
                        > number_of_analyzed_object_of_reference)
        => (error = "ValueError" /\ reached = "raise")

\* C3: after a run, statistic_method names the normal approximation iff every
\* row's count of interest is strictly above the threshold, the
\* hypergeometric test otherwise, and every row's raw p-value in that column
\* is the value of that one mode.
C3_ModeChosenForWholeTable ==
    RanAnalysis =>
        LET normal == \A i \in RowsOf(dataframe) :
                          dataframe.rows[i].interest > normal_approximation_threshold
            column == IF normal THEN "pvalue_normal_approximation"
                      ELSE "pvalue_hypergeometric"
        IN  /\ statistic_method = column
            /\ reached # "test_on_dataframe" =>
                 /\ column \in dataframe.cols
                 /\ \A i \in RowsOf(dataframe) :
                      dataframe.rows[i].num[column] =
                        IF normal
                        THEN compute_normal_approximation(dataframe.rows[i],
                                 number_of_analyzed_object_of_interest,
                                 number_of_analyzed_object_of_reference)
                        ELSE HypergeomSf(dataframe.rows[i].interest - 1,
                                 number_of_analyzed_object_of_reference,
                                 dataframe.rows[i].reference,
                                 number_of_analyzed_object_of_interest)

\* a run in hypergeometric mode on a table with a count above the threshold
\* and a count not above it
C3_Witness ==
    /\ RanAnalysis
    /\ statistic_method = "pvalue_hypergeometric"
    /\ "pvalue_hypergeometric" \in dataframe.cols
    /\ \E i \in RowsOf(dataframe) :
          dataframe.rows[i].interest > normal_approximation_threshold
    /\ \E i \in RowsOf(dataframe) :
          dataframe.rows[i].interest <= normal_approximation_threshold

\* P(X >= k) as the sum of C(K,x) * C(N-K,n-x) / C(N,n) over x >= k
UpperTail(k, K, n, N) ==
    LET term(x) == Choose(K, x) * Choose(N - K, n - x)
    IN  Rat(SumTo(term, k, n), Choose(N, n))

\* C4: in hypergeometric mode the raw p-value of a row with counts k and K,
\* for sizes n and N that define a hypergeometric distribution (K <= N and
\* n <= N), is the sum over x >= k of C(K,x) * C(N-K,n-x) / C(N,n); it is 1
\* when k = 0.
C4_HypergeometricUpperTail ==
    (RanAnalysis /\ statistic_method = "pvalue_hypergeometric"
        /\ number_of_analyzed_object_of_interest
              <= number_of_analyzed_object_of_reference)
    => \A i \in RowsOf(dataframe) :
          dataframe.rows[i].reference <= number_of_analyzed_object_of_reference =>
            /\ dataframe.rows[i].num["pvalue_hypergeometric"] =
                 UpperTail(dataframe.rows[i].interest, dataframe.rows[i].reference,
                           number_of_analyzed_object_of_interest,
                           number_of_analyzed_object_of_reference)
            /\ dataframe.rows[i].interest = 0 =>
                 dataframe.rows[i].num["pvalue_hypergeometric"] = One

\* a run in hypergeometric mode with a row whose p-value is strictly between
\* 0 and 1 and a row with k = 0
C4_Witness ==
    /\ RanAnalysis
    /\ statistic_method = "pvalue_hypergeometric"
    /\ number_of_analyzed_object_of_interest <= number_of_analyzed_object_of_reference
    /\ \E i \in RowsOf(dataframe) :
          /\ dataframe.rows[i].reference <= number_of_analyzed_object_of_reference
          /\ dataframe.rows[i].interest >= 1
          /\ RLt(Zero, dataframe.rows[i].num["pvalue_hypergeometric"])
          /\ RLt(dataframe.rows[i].num["pvalue_hypergeometric"], One)
    /\ \E i \in RowsOf(dataframe) :
          /\ dataframe.rows[i].reference <= number_of_analyzed_object_of_reference
          /\ dataframe.rows[i].interest = 0

\* C5: in both test modes, a run whose test engine produced a non-empty
\* column of numbers completes without raising, and Benjamini-Yekutieli and
\* SGoF read the column named by statistic_method.
C5_CorrectionsReadTestColumn ==
    (/\ RanAnalysis
     /\ reached # "test_on_dataframe"
     /\ Len(dataframe.rows) >= 1
     /\ \A i \in RowsOf(dataframe) : Finite(dataframe.rows[i].num[statistic_method]))
    => /\ error = "none"
       /\ BenjaminiYekutieliColumn = statistic_method
       /\ SGoFColumn = statistic_method

\* the scenario of C6: the five raw p-values, alpha = 0.05, corrected by
\* multiple_testing_correction
C6_Scenario ==
    /\ suite = "base"
    /\ op = "multiple_testing_correction"
    /\ error = "none"
    /\ alpha = Rat(1, 20)
    /\ statistic_method = "pvalue_hypergeometric"
    /\ Column(dataframe, "pvalue_hypergeometric")
          = <<Rat(1, 1000), Rat(1, 100), Rat(1, 50), Rat(1, 5), Rat(1, 2)>>

\* C6 as claimed: Bonferroni yields [0.005, 0.05, 0.1, 1.0, 1.0] and the
\* Bonferroni significance list is exactly the first two objects.
C6_BonferroniFirstTwo ==
    C6_Scenario =>
        /\ Column(returned, "pValueBonferroni")
              = <<Rat(1, 200), Rat(1, 20), Rat(1, 10), One, One>>
        /\ significative_objects["Bonferroni"] = <<1, 2>>

\* C6 as amended: Bonferroni yields [0.005, 0.05, 0.1, 1.0, 1.0] and the
\* Bonferroni significance list is exactly the first object (the second raw
\* p-value 0.01 is not strictly below alpha / m = 0.01).
C6_BonferroniFirstOnly ==
    C6_Scenario =>
        /\ Column(returned, "pValueBonferroni")
              = <<Rat(1, 200), Rat(1, 20), Rat(1, 10), One, One>>
        /\ significative_objects["Bonferroni"] = <<1>>

C6_Witness == C6_Scenario /\ Len(returned.rows) = 5

\* C7: after multiple_testing_correction, each of the Holm, Benjamini-Hochberg
\* and Benjamini-Yekutieli columns, read down the table (ascending raw
\* p-value), is non-decreasing.
C7_CorrectedColumnsNonDecreasing ==
    (op = "multiple_testing_correction" /\ error = "none") =>
        /\ NonDecreasing(Column(returned, "pValueHolm"))
        /\ NonDecreasing(Column(returned, "pValueBenjaminiHochberg"))
        /\ NonDecreasing(Column(returned, "pValueBenjaminiYekutieli"))

\* C8: after multiple_testing_correction, every row's Benjamini-Yekutieli
\* value is at least its Benjamini-Hochberg value, and every object of the
\* Benjamini-Yekutieli list is in the Benjamini-Hochberg list.
C8_YekutieliAtLeastHochberg ==
    (op = "multiple_testing_correction" /\ error = "none") =>
        /\ \A i \in RowsOf(returned) :
              RGe(returned.rows[i].num["pValueBenjaminiYekutieli"],
                  returned.rows[i].num["pValueBenjaminiHochberg"])
        /\ \A i \in 1..Len(significative_objects["BenjaminiYekutieli"]) :
              InList(significative_objects["BenjaminiYekutieli"][i],
                     significative_objects["BenjaminiHochberg"])

\* the scenario of C9: eight rows, exactly two raw p-values below
\* alpha = 0.05, correction_sgof then selection_object_with_sgof
C9_Scenario ==
    /\ suite = "experimental"
    /\ op = "selection_object_with_sgof"
    /\ alpha = Rat(1, 20)
    /\ statistic_method = "pvalue_hypergeometric"
    /\ Len(dataframe.rows) = 8
    /\ Cardinality({i \in RowsOf(dataframe) :
           RLt(dataframe.rows[i].num["pvalue_hypergeometric"], alpha)}) = 2

C10_NaNRowDoesNotAbort ==
    (/\ RanAnalysis
     /\ statistic_method = "pvalue_normal_approximation"
     /\ reached # "test_on_dataframe"
     /\ \E i \in RowsOf(dataframe) :
           IsNaN(dataframe.rows[i].num["pvalue_normal_approximation"]))
    => /\ error = "none"
       /\ reached = "return"
       /\ DOMAIN significative_objects
             = {multiple_test_names[i] : i \in 1..Len(multiple_test_names)}
       /\ \A i \in RowsOf(dataframe) :
             IsNaN(dataframe.rows[i].num["pvalue_normal_approximation"]) =>
                \A name \in DOMAIN significative_objects :
                    ~InList(dataframe.rows[i].key, significative_objects[name])

\* C11: the extended suite leaves the other methods' results alone: the
\* lists of Sidak, Bonferroni, Holm, BenjaminiHochberg and BenjaminiYekutieli
\* returned by the extended multiple_testing_correction equal those the base
\* multiple_testing_correction returns for the same table and parameters.
C11_ExtendedSuiteSameLists ==
    (suite = "experimental" /\ op = "multiple_testing_correction" /\ error = "none")
    => \A i \in 1..Len(multiple_test_names) :
          significative_objects[multiple_test_names[i]] =
             multiple_testing_correction(dataframe, statistic_method, alpha)
                 .significative_objects[multiple_test_names[i]]

\* every cell the table before has is in the table after, under the same key
CellsKept(before, after) ==
    /\ {before.rows[i].key : i \in RowsOf(before)} = {after.rows[j].key : j \in RowsOf(after)}
    /\ Len(before.rows) = Len(after.rows)
    /\ \A i \in RowsOf(before) : \E j \in RowsOf(after) :
          /\ after.rows[j].key = before.rows[i].key
          /\ after.rows[j].interest = before.rows[i].interest
          /\ after.rows[j].reference = before.rows[i].reference
          /\ \A c \in before.cols \cap NumCols :
                after.rows[j].num[c] = before.rows[i].num[c]
          /\ "pValueSGoF" \in before.cols => after.rows[j].sgof = before.rows[i].sgof

\* C12: every stage is read/append-only on the table: a correction suite, the
\* SGoF correction and the SGoF selector that complete leave the object keys
\* and every cell the table already had as they were.
C12_StagesAppendOnly ==
    [][(error' = "none" /\ op' # op)
          => CellsKept(dataframe, IF op' = "multiple_testing_correction"
                                  THEN returned' ELSE dataframe')]_vars

C14_IncompleteDictionaryCompletes ==
    (/\ suite = "annotation"
     /\ op = "multiple_testing_correction"
     /\ Len(dataframe.rows) > 0
     /\ "pvalue_hypergeometric" \in dataframe.cols)
    => /\ error = "none"
       /\ \A name \in DOMAIN significative_objects :
             \A i \in 1..Len(significative_objects[name]) :
                \E key \in DOMAIN annotation_id_to_labels :
                   significative_objects[name][i] = annotation_id_to_labels[key]

\* min(1, p * (m - j + 1)) for the row of 1-based rank j
HolmCandidate(pvalues, j) ==
    LET candidate == RTimes(pvalues[j], Len(pvalues) - j + 1)
    IN  IF RGt(candidate, One) THEN One ELSE candidate

RECURSIVE HolmRunningMaximum(_, _)
\* the largest candidate of the ranks 1..i
HolmRunningMaximum(pvalues, i) ==
    IF i = 1 THEN HolmCandidate(pvalues, 1)
    ELSE LET before == HolmRunningMaximum(pvalues, i - 1)
         IN  IF RGt(HolmCandidate(pvalues, i), before) THEN HolmCandidate(pvalues, i)
             ELSE before

\* C15: correction_holm computes the running maximum of the capped
\* candidates: in every table a correction suite returns, the Holm value of
\* the row of rank i in ascending raw p-value order is the largest of
\* min(1, p_j * (m - j + 1)) over j <= i, for either alpha.
C15_HolmIsRunningMaximum ==
    (op = "multiple_testing_correction" /\ error = "none")
    => LET sorted == sort_values(returned, statistic_method)
       IN  \A i \in RowsOf(sorted) :
              sorted.rows[i].num["pValueHolm"] =
                 HolmRunningMaximum(Column(sorted, statistic_method), i)

\* a returned table in which a row's Holm value is above alpha and above the
\* row's own candidate
C15_Witness ==
    /\ op = "multiple_testing_correction" /\ error = "none"
    /\ \E i \in RowsOf(returned) :
          /\ RGt(returned.rows[i].num["pValueHolm"], alpha)
          /\ RGt(returned.rows[i].num["pValueHolm"],
                 HolmCandidate(Column(returned, statistic_method), i))

\* C16: in the large-sample branch the rows marked 'significant' form a
\* contiguous prefix of the table in ascending raw p-value order: no row
\* with the verdict comes after a row without it.
C16_SignificantRowsArePrefix ==
    (/\ op = "correction_sgof" /\ error = "none"
     /\ Len(dataframe.rows) > SmallSampleLimit)
    => \A i \in RowsOf(dataframe) : \A j \in RowsOf(dataframe) :
          (i < j /\ dataframe.rows[j].sgof = "significant")
          => dataframe.rows[i].sgof = "significant"

\* C17: when no raw p-value of the run is below alpha, correction_sgof
\* completes and marks no row, in the small-sample and in the large-sample
\* branch, and selection_object_with_sgof returns the empty list.
C17_NoneBelowAlphaNoneSignificant ==
    (/\ op \in {"correction_sgof", "selection_object_with_sgof"}
     /\ CountBelow(dataframe, statistic_method, alpha) = 0)
    => /\ error = "none"
       /\ \A i \in RowsOf(dataframe) : dataframe.rows[i].sgof # "significant"
       /\ op = "selection_object_with_sgof" => significative_objects["SGoF"] = <<>>

\* C18: in the large-sample branch with every raw p-value below alpha, after
\* R is decremented every evaluated rank r of 1..R+1 has r > 0 and m - r > 0,
\* and its statistic is a defined number.
C18_EveryRankDefined ==
    (/\ op = "correction_sgof" /\ error = "none"
     /\ Len(dataframe.rows) > SmallSampleLimit
     /\ CountBelow(dataframe, SGoFColumn, alpha) = Len(dataframe.rows))
    => \A r \in 1..(SGoFRanks(Len(dataframe.rows), Len(dataframe.rows)) + 1) :
          /\ r > 0
          /\ Len(dataframe.rows) - r > 0
          /\ ~IsNaN(SGoFStatistic(r, Len(dataframe.rows), alpha))

\* the attributes of the object other than the two sizes
OtherAttributes ==
    <<alpha, normal_approximation_threshold, statistic_method, output_columns,
      dataframe, suite, annotation_id_to_labels>>

\* C19: a rejected call of the setter of n_interest or of n_reference raises
\* ValueError and changes no attribute; an accepted call changes only the
\* field it sets, and only to a value that keeps n_interest <= n_reference.
C19_SetterChangesOnlyItsField ==
    [][/\ (calls' # calls /\ op' = "number_of_analyzed_object_of_interest")
          => /\ UNCHANGED <<number_of_analyzed_object_of_reference, OtherAttributes>>
             /\ error' \in {"none", "ValueError"}
             /\ error' = "ValueError" => UNCHANGED number_of_analyzed_object_of_interest
             /\ error' = "none" => number_of_analyzed_object_of_interest'
                                      <= number_of_analyzed_object_of_reference
       /\ (calls' # calls /\ op' = "number_of_analyzed_object_of_reference")
          => /\ UNCHANGED <<number_of_analyzed_object_of_interest, OtherAttributes>>
             /\ error' \in {"none", "ValueError"}
             /\ error' = "ValueError" => UNCHANGED number_of_analyzed_object_of_reference
             /\ error' = "none" => number_of_analyzed_object_of_reference'
                                      >= number_of_analyzed_object_of_interest
      ]_vars

\* a call of a size setter was rejected
C19_Witness ==
    /\ op \in {"number_of_analyzed_object_of_interest",
               "number_of_analyzed_object_of_reference"}
    /\ error = "ValueError"

C21_OutputColumnIsStatisticMethod ==
    RanAnalysis => output_columns = statistic_method

====
